---- MODULE Spec2Model ----
(***************************************************************************)
(* sails-memory: the in-memory Database of src/lib/database.js behind the  *)
(* adapter of src/lib/adapter.js, with the criteria matcher of             *)
(* waterline-criteria (src/unnamed/part_002).                              *)
(*                                                                         *)
(* JavaScript objects are modelled with their identity: the store holds    *)
(* references (Oid) into a heap, the caller keeps the references of the    *)
(* objects it handed to insert.  setTimeout(fn, 0) is a FIFO queue of      *)
(* pending completions (timers); a callback invoked inside the issuing     *)
(* call is logged as synchronous.                                          *)
(***************************************************************************)
EXTENDS Integers, Sequences, FiniteSets, TLC

\* ---------------------------------------------------------------- bounds
MaxOps == 3      \* operations the caller issues
MaxObj == 2      \* record objects the store takes from the caller
MaxPending == 2  \* completions that may wait for their turn at once
MaxMut == 1      \* writes of the caller to objects it holds

\* ---------------------------------------------------------------- inputs
SuppliedNumbers == {1, 2}   \* the numbers the caller supplies
Pages == {0, 1}             \* the skip and limit values the caller supplies
BatchSizes == {2}           \* the lengths of the lists handed to insert

\* ---------------------------------------------------------------- values
\* A JavaScript value is tagged with its type; undefined is a missing key.
Num(n) == <<"n", n>>
Str(s) == <<"s", s>>
Bool(b) == <<"b", b>>
Undef == <<"u">>

IsNum(v) == v[1] = "n"
IsStr(v) == v[1] = "s"
IsBool(v) == v[1] = "b"

Colls == {"user"}
\* the keys of this.data, this.schema and this.counters: the names as the
\* callers spell them
Names == {"user", "User"}
Attrs == {"id", "name"}
\* for-in order of the attributes of a schema
AttrOrder == <<"id", "name">>
\* the result of getPrimaryKey on a schema without primary key (undefined)
NoAttr == "undefined"

Nums == {Num(n) : n \in SuppliedNumbers}
Strs == {Str("a"), Str("b")}
AttrVals(a) == IF a = "id" THEN Nums ELSE Strs

\* A record (and a partial-values object): its keys are its DOMAIN.
Records == UNION {{r \in [S -> Nums \cup Strs] : \A a \in S : r[a] \in AttrVals(a)} : S \in SUBSET Attrs}
EmptyRec == [a \in {} |-> Undef]

\* obj[key] in JavaScript
Get(rec, a) == IF a \in DOMAIN rec THEN rec[a] ELSE Undef

\* obj[key] = v
Put(rec, a, v) == [k \in (DOMAIN rec) \cup {a} |-> IF k = a THEN v ELSE rec[k]]

\* _.extend(target, source): shallow merge of source's keys into target
Extend(target, source) ==
  [k \in (DOMAIN target) \cup (DOMAIN source) |->
     IF k \in DOMAIN source THEN source[k] ELSE target[k]]

\* JavaScript truthiness of a value
Truthy(v) == /\ v # Undef
             /\ v # Num(0)
             /\ v # Str("")

\* ---------------------------------------------------------------- schema
AttrDef(pk, uq, ai, ty) ==
  [primaryKey |-> pk, unique |-> uq, autoIncrement |-> ai, type |-> ty]

\* waterline's default: an auto-incremented integer primary key
SchemaUser == [a \in Attrs |->
  IF a = "id" THEN AttrDef(TRUE, TRUE, TRUE, "integer")
              ELSE AttrDef(FALSE, TRUE, FALSE, "string")]
\* a definition without primary key
SchemaLoose == [a \in Attrs |->
  IF a = "id" THEN AttrDef(FALSE, FALSE, TRUE, "integer")
              ELSE AttrDef(FALSE, TRUE, FALSE, "string")]
\* this.schema[name] after delete, and `options.definition || {}`
NoSchema == [a \in {} |-> AttrDef(FALSE, FALSE, FALSE, "string")]
Definitions == {SchemaUser, SchemaLoose}

RECURSIVE PkFrom(_, _)
PkFrom(sch, i) ==
  IF i = 0 THEN NoAttr
  ELSE IF AttrOrder[i] \in DOMAIN sch /\ sch[AttrOrder[i]].primaryKey
       THEN AttrOrder[i]
       ELSE PkFrom(sch, i - 1)

\* the last attribute flagged primaryKey, undefined when there is none
getPrimaryKey(sch) == PkFrom(sch, Len(AttrOrder))

\* ---------------------------------------------------------------- criteria
\* the strings that parse as a number, and +s for them
NumericStrings == {"0", "1", "2"}
ToNumber(s) == CASE s = "1" -> 1 [] s = "2" -> 2 [] OTHER -> 0

\* matchLiteral's cast: a criterion that parses as a finite non-zero number
\* is replaced by that number (Math.pow(+criterion, 2) > 0)
CastCriterion(criterion) ==
  IF IsStr(criterion) /\ criterion[2] \in NumericStrings /\ ToNumber(criterion[2]) # 0
  THEN Num(ToNumber(criterion[2]))
  ELSE IF criterion = Bool(TRUE) THEN Num(1)
  ELSE criterion

\* the order of the strings of the model under < (code units)
StrRank(s) ==
  CASE s = "" -> 0 [] s = "0" -> 1 [] s = "1" -> 2 [] s = "2" -> 3
    [] s = "a" -> 4 [] s = "b" -> 5 [] OTHER -> 6

\* a < b in JavaScript: numbers by value, strings by code units, a string
\* against a number by its numeric value (NaN compares false)
JsLess(a, b) ==
  CASE IsNum(a) /\ IsNum(b) -> a[2] < b[2]
    [] IsStr(a) /\ IsStr(b) -> StrRank(a[2]) < StrRank(b[2])
    [] IsNum(a) /\ IsStr(b) -> b[2] \in NumericStrings /\ a[2] < ToNumber(b[2])
    [] IsStr(a) /\ IsNum(b) -> a[2] \in NumericStrings /\ ToNumber(a[2]) < b[2]
    [] OTHER -> FALSE

\* a <= b in JavaScript on the values of the model
JsLessEq(a, b) ==
  \/ JsLess(a, b)
  \/ a = b /\ (IsNum(a) \/ IsStr(a))
  \/ IsNum(a) /\ IsStr(b) /\ b[2] \in NumericStrings /\ a[2] = ToNumber(b[2])
  \/ IsStr(a) /\ IsNum(b) /\ a[2] \in NumericStrings /\ ToNumber(a[2]) = b[2]

\* a criterion object: its entries <<key, operand>> in the key order of the object
Obj(entries) == <<"o", entries>>
IsObj(v) == v[1] = "o"

\* the characters of the strings of the model
Chars(s) ==
  CASE s = "" -> <<>>
    [] s = "0" -> <<"0">> [] s = "1" -> <<"1">> [] s = "2" -> <<"2">>
    [] s = "a" -> <<"a">> [] s = "b" -> <<"b">>
    [] s = "foo" -> <<"f", "o", "o">> [] s = "FOO" -> <<"F", "O", "O">>
    [] s = "boot" -> <<"b", "o", "o", "t">> [] s = "bar" -> <<"b", "a", "r">>
    [] s = "5%" -> <<"5", "%">> [] s = "5x" -> <<"5", "x">>
    [] s = "%oo%" -> <<"%", "o", "o", "%">> [] s = "f%" -> <<"f", "%">>
    [] s = "%" -> <<"%">> [] s = "oo" -> <<"o", "o">>
    [] s = "5%%%" -> <<"5", "%", "%", "%">>
    [] s = "true" -> <<"t", "r", "u", "e">>
    [] s = "false" -> <<"f", "a", "l", "s", "e">>
    [] OTHER -> <<s>>

\* String(v) for a number or a string of the model, as characters
StringOf(v) ==
  IF IsStr(v) THEN Chars(v[2])
  ELSE IF v = Undef THEN <<"u", "n", "d", "e", "f", "i", "n", "e", "d">>
  ELSE IF IsBool(v) THEN Chars(IF v[2] THEN "true" ELSE "false")
  ELSE IF v[2] < 0 THEN <<"-">> \o Chars(IF v[2] = -1 THEN "1" ELSE "2")
  ELSE Chars(IF v[2] = 0 THEN "0" ELSE IF v[2] = 1 THEN "1" ELSE "2")

\* _.str.startsWith, _.str.endsWith, _.str.contains
startsWith(str, starts) ==
  Len(starts) <= Len(str) /\ SubSeq(str, 1, Len(starts)) = starts
endsWith(str, ends) ==
  Len(ends) <= Len(str) /\ SubSeq(str, Len(str) - Len(ends) + 1, Len(str)) = ends
contains(str, needle) ==
  \E k \in 0..Len(str) : startsWith(SubSeq(str, k + 1, Len(str)), needle)

\* the match functions handed to matchLiteral; nothing but an object is
\* _.isEqual to an object
ApplyMatchFn(fn, a, b) ==
  CASE fn = "isEqual" -> ~IsObj(b) /\ a = b
    [] fn = "notEqual" -> IsObj(b) \/ a # b
    [] fn = "greaterThan" -> ~IsObj(b) /\ JsLess(b, a)
    [] fn = "greaterThanOrEqual" -> ~IsObj(b) /\ JsLessEq(b, a)
    [] fn = "lessThan" -> ~IsObj(b) /\ JsLess(a, b)
    [] fn = "lessThanOrEqual" -> ~IsObj(b) /\ JsLessEq(a, b)
    [] fn = "startsWith" -> ~IsObj(b) /\ ~IsBool(b) /\ startsWith(StringOf(a), StringOf(b))
    [] fn = "endsWith" -> ~IsObj(b) /\ ~IsBool(b) /\ endsWith(StringOf(a), StringOf(b))
    [] fn = "contains" -> ~IsObj(b) /\ ~IsBool(b) /\ contains(StringOf(a), StringOf(b))
    [] OTHER -> FALSE

matchLiteral(model, key, criterion, fn) ==
  LET c == IF IsObj(criterion) THEN criterion ELSE CastCriterion(criterion) IN
  IF Get(model, key) = Undef THEN FALSE
  ELSE ApplyMatchFn(fn, Get(model, key), c)

\* key.toLowerCase() on the keys of the model
ToLowerCase(key) ==
  IF key \in {"NOT", "Not"} THEN "not"
  ELSE IF key \in {"LIKE", "Like"} THEN "like"
  ELSE key

\* a character without its case (the i modifier)
LowerChar(ch) == CASE ch = "F" -> "f" [] ch = "O" -> "o" [] OTHER -> ch

\* matchString.replace(/%%%/g, '%'): every run of three % signs, from the
\* left, becomes one
RECURSIVE UnescapePercent(_)
UnescapePercent(p) ==
  IF p = <<>> THEN <<>>
  ELSE IF Len(p) >= 3 /\ SubSeq(p, 1, 3) = <<"%", "%", "%">>
       THEN <<"%">> \o UnescapePercent(SubSeq(p, 4, Len(p)))
       ELSE <<Head(p)>> \o UnescapePercent(Tail(p))

\* matchString.replace(/([^%]*)%([^%]*)/g, '$1.*$2'): every % sign of the
\* string becomes .* (this runs on the result of the replacement above)
PercentToAny(p) == [k \in 1..Len(p) |-> IF p[k] = "%" THEN ".*" ELSE p[k]]

\* ^tokens$ with the i modifier against a string: .* takes any run of
\* characters, every other token the same character in either case
RECURSIVE RegExpMatch(_, _)
RegExpMatch(tokens, str) ==
  IF tokens = <<>> THEN str = <<>>
  ELSE IF Head(tokens) = ".*"
       THEN \E k \in 0..Len(str) : RegExpMatch(Tail(tokens), SubSeq(str, k + 1, Len(str)))
       ELSE /\ str # <<>>
            /\ LowerChar(Head(str)) = LowerChar(Head(tokens))
            /\ RegExpMatch(Tail(tokens), Tail(str))

\* matchLike: every attribute of the criteria has a string, number or
\* boolean value that fits its pattern (a string)
matchLike(model, criteria) ==
  \A key \in DOMAIN criteria :
    LET index == Get(model, key) IN
    /\ IsNum(index) \/ IsStr(index) \/ IsBool(index)
    /\ RegExpMatch(PercentToAny(UnescapePercent(Chars(criteria[key][2]))),
                   IF IsBool(index) THEN Chars(IF index[2] THEN "true" ELSE "false")
                   ELSE StringOf(index))

\* the match function matchItem picks for a key under an attribute, "invalid"
\* where it throws Invalid query syntax
MatchFnOf(key) ==
  CASE ToLowerCase(key) = "not" \/ key = "!" -> "notEqual"
    [] key \in {"greaterThan", ">"} -> "greaterThan"
    [] key \in {"greaterThanOrEqual", ">="} -> "greaterThanOrEqual"
    [] key \in {"lessThan", "<"} -> "lessThan"
    [] key \in {"lessThanOrEqual", "<="} -> "lessThanOrEqual"
    [] key \in {"startsWith", "endsWith", "contains"} -> key
    [] OTHER -> "invalid"

\* the keys validSubAttrCriteria looks up
SubAttrKeys == {"not", "greaterThan", "lessThan", "greaterThanOrEqual", "lessThanOrEqual",
                "<", "<=", "!", ">", ">=", "startsWith", "endsWith", "contains"}

\* an object is a criterion on the attribute when one of those keys holds a
\* truthy operand
validSubAttrCriteria(c) ==
  /\ IsObj(c)
  /\ \E i \in 1..Len(c[2]) : c[2][i][1] \in SubAttrKeys /\ Truthy(c[2][i][2])

\* matchItem under a parent key: the entry <<key, operand>> of the object
\* holds for the attribute
EntryHolds(model, parentKey, entry) ==
  /\ MatchFnOf(entry[1]) # "invalid"
  /\ matchLiteral(model, parentKey, entry[2], MatchFnOf(entry[1]))

\* matchItem returns true: every entry of an attribute criterion holds, or
\* the literal match does
matchItem(model, key, criterion) ==
  IF ToLowerCase(key) = "like" THEN matchLike(model, criterion)
  ELSE IF validSubAttrCriteria(criterion)
  THEN \A i \in 1..Len(criterion[2]) : EntryHolds(model, key, criterion[2][i])
  ELSE matchLiteral(model, key, criterion, "isEqual")

\* matchItem throws: _.all reaches an entry with an unknown key, every entry
\* before it having held
matchItemThrows(model, key, criterion) ==
  /\ ToLowerCase(key) # "like"
  /\ validSubAttrCriteria(criterion)
  /\ \E i \in 1..Len(criterion[2]) :
       /\ MatchFnOf(criterion[2][i][1]) = "invalid"
       /\ \A j \in 1..(i - 1) : EntryHolds(model, key, criterion[2][j])

\* a null or {} where matches everything, otherwise every entry must match
matchSet(model, criteria) ==
  \/ DOMAIN criteria = {}
  \/ \A key \in DOMAIN criteria : matchItem(model, key, criteria[key])

\* matchSet throws when the match of one of its entries does
matchSetThrows(model, criteria) ==
  \E key \in DOMAIN criteria : matchItemThrows(model, key, criteria[key])

Indices(s) == [i \in 1..Len(s) |-> i]

\* the positions of the records matching where, in collection order
applyFilter(recs, where) ==
  SelectSeq(Indices(recs), LAMBDA i : matchSet(recs[i], where))

\* the comparator of _.sortBy on two criteria values: undefined sorts last
SortCompare(a, b) ==
  IF a = b THEN 0
  ELSE IF JsLess(b, a) \/ a = Undef THEN 1
  ELSE IF JsLess(a, b) \/ b = Undef THEN -1
  ELSE 0

PositionIn(s, x) == CHOOSE k \in 1..Len(s) : s[k] = x

\* _.sortBy(list, model => model[attrName]) on a list of distinct positions:
\* ascending by the value, ties in the order of the list
sortBy(recs, matches, attrName) ==
  LET before(x, y) ==
        \/ SortCompare(Get(recs[x], attrName), Get(recs[y], attrName)) < 0
        \/ /\ SortCompare(Get(recs[x], attrName), Get(recs[y], attrName)) = 0
           /\ PositionIn(matches, x) < PositionIn(matches, y)
      rank(x) == Cardinality({k \in 1..Len(matches) : before(matches[k], x)}) + 1
  IN [k \in 1..Len(matches) |-> CHOOSE x \in {matches[j] : j \in 1..Len(matches)} : rank(x) = k]

\* Array.prototype.reverse
Reverse(s) == [k \in 1..Len(s) |-> s[Len(s) + 1 - k]]

\* applySort's loop over the directives <<attribute, direction>>, first to
\* last: each one sorts the whole list again, -1 reverses it afterwards
RECURSIVE applySortFrom(_, _, _, _)
applySortFrom(recs, matches, sort, i) ==
  IF i > Len(sort) THEN matches
  ELSE LET attrName == sort[i][1]
           direction == sort[i][2]
           sortedData == IF direction = 1 \/ direction = -1
                         THEN sortBy(recs, matches, attrName)
                         ELSE matches
       IN applySortFrom(recs, IF direction = -1 THEN Reverse(sortedData) ELSE sortedData,
                        sort, i + 1)

\* no sort leaves the list alone
applySort(recs, matches, sort) == applySortFrom(recs, matches, sort, 1)

\* _.rest(data, skip); skip 0 or absent leaves the list alone
applySkip(matches, skip) ==
  IF skip = 0 THEN matches
  ELSE SubSeq(matches, skip + 1, Len(matches))

\* _.first(data, limit); limit 0 or absent leaves the list alone
applyLimit(matches, limit) ==
  IF limit = 0 THEN matches
  ELSE SubSeq(matches, 1, IF limit < Len(matches) THEN limit ELSE Len(matches))

\* filter, sort, skip, limit, then the original positions of what is left
getMatchIndices(recs, options) ==
  applyLimit(applySkip(applySort(recs, applyFilter(recs, options.where), options.sort),
                       options.skip),
             options.limit)

\* the result set of a query: the positions left and a copy of each record there
ResultSet(recs, indices) ==
  [indices |-> indices, results |-> [k \in 1..Len(indices) |-> recs[indices[k]]]]

\* waterlineCriteria(name, data, options): positions and copies of the matches
waterlineCriteria(recs, options) == ResultSet(recs, getMatchIndices(recs, options))

\* ---------------------------------------------------------------- constraints
\* the violations of one unique attribute against every stored record;
\* updatedIds is the list handed over by update, absent (hasIds FALSE) on insert
UniqueCollisions(sch, recs, values, updatedIds, hasIds, a) ==
  LET pk == getPrimaryKey(sch)
      same(i) ==
        IF Get(values, pk) = Undef
        THEN hasIds /\ Get(recs[i], pk) \in updatedIds
        ELSE Get(values, pk) = Get(recs[i], pk)
      hit(i) == /\ Get(values, a) # Undef
                /\ Get(values, a) = Get(recs[i], a)
                /\ ~same(i)
      at == SelectSeq(Indices(recs), hit)
  IN [k \in 1..Len(at) |-> [attribute |-> a, value |-> Get(values, a)]]

RECURSIVE UniqueFrom(_, _, _, _, _, _)
UniqueFrom(sch, recs, values, updatedIds, hasIds, i) ==
  IF i > Len(AttrOrder) THEN <<>>
  ELSE LET a == AttrOrder[i]
           here == IF a \in DOMAIN sch /\ sch[a].unique
                   THEN UniqueCollisions(sch, recs, values, updatedIds, hasIds, a)
                   ELSE <<>>
       IN here \o UniqueFrom(sch, recs, values, updatedIds, hasIds, i + 1)

\* every uniqueness violation of values against the stored records
enforceUniqueness(sch, recs, values, updatedIds, hasIds) ==
  UniqueFrom(sch, recs, values, updatedIds, hasIds, 1)

\* one auto-increment attribute: a supplied (truthy) value raises the
\* counter, a missing one takes the next counter value; counter 0 is unset
AutoIncrementAttr(st, a) ==
  LET v == Get(st.values, a)
      c == st.counters[a]
  IN IF Truthy(v)
     THEN [values |-> st.values,
           counters |-> IF c = 0 \/ (IsNum(v) /\ v[2] > c)
                        THEN [st.counters EXCEPT ![a] = v[2]]
                        ELSE st.counters]
     ELSE [values |-> Put(st.values, a, Num(c + 1)),
           counters |-> [st.counters EXCEPT ![a] = c + 1]]

RECURSIVE AutoIncrementFrom(_, _, _)
AutoIncrementFrom(sch, st, i) ==
  IF i > Len(AttrOrder) THEN st
  ELSE LET a == AttrOrder[i] IN
       AutoIncrementFrom(sch,
         IF a \in DOMAIN sch /\ sch[a].autoIncrement THEN AutoIncrementAttr(st, a) ELSE st,
         i + 1)

\* autoIncrement(collectionName, values): the record and the counters after it
autoIncrement(sch, ctrs, values) ==
  AutoIncrementFrom(sch, [values |-> values, counters |-> ctrs], 1)

\* JSON.parse on a value of the model; it throws on what is no JSON text
JSONparse(v) ==
  IF IsNum(v) THEN [ok |-> TRUE, val |-> v]
  ELSE IF IsStr(v) /\ v[2] \in NumericStrings THEN [ok |-> TRUE, val |-> Num(ToNumber(v[2]))]
  ELSE [ok |-> FALSE, val |-> v]

\* serializeValues: an attribute of type json is replaced by its parsed value
serializeValues(sch, values) ==
  [k \in DOMAIN values |->
     IF k \in DOMAIN sch /\ sch[k].type = "json" /\ JSONparse(values[k]).ok
     THEN JSONparse(values[k]).val
     ELSE values[k]]

\* ---------------------------------------------------------------- state
VARIABLES
  schema,    \* this.schema: collection -> attribute definitions ({} when absent)
  data,      \* this.data: collection -> the stored record objects, in order
  hasData,   \* the collections for which this.data[name] exists
  counters,  \* this.counters: collection -> attribute -> last value (0: unset)
  heap,      \* the record objects, by identity
  nobj,      \* objects allocated so far
  timers,    \* completions deferred with setTimeout(fn, 0), oldest first
  last,      \* the completion whose callback ran last
  nops,      \* operations issued
  nmut,      \* caller mutations made
  called,    \* how often the callback of each operation has run
  connections, \* the identities registered with the adapter
  serial     \* the store of a run in which every operation is issued only
             \* after the completion of the one before it

vars == <<schema, data, hasData, counters, heap, nobj, timers, last, nops, nmut,
          called, connections, serial>>

Oids == 1..MaxObj

\* the store of the Database object
Store == [schema |-> schema, data |-> data, hasData |-> hasData,
          counters |-> counters, heap |-> heap, nobj |-> nobj]

Assign(st) ==
  /\ schema' = st.schema
  /\ data' = st.data
  /\ hasData' = st.hasData
  /\ counters' = st.counters
  /\ heap' = st.heap
  /\ nobj' = st.nobj

NoError == [code |-> "none", invalidAttributes |-> {}]
CollectionNotRegistered == [code |-> "CollectionNotRegistered", invalidAttributes |-> {}]

\* UniquenessError(errors): the violations grouped by attribute
UniquenessError(errors) ==
  [code |-> "E_UNIQUE", invalidAttributes |-> {errors[i].attribute : i \in 1..Len(errors)}]

\* the records of a collection, in collection order
Recs(st, c) ==
  IF c \in st.hasData THEN [i \in 1..Len(st.data[c]) |-> st.heap[st.data[c][i]]] ELSE <<>>
DataRecs(c) == Recs(Store, c)

NoWhere == [a \in {} |-> Undef]
Wheres == {NoWhere} \cup {[k \in {a} |-> v] : a \in Attrs, v \in Nums \cup Strs}
\* the sort directives <<attribute, direction>>, in the key order of the object
NoSort == <<>>
Directions == {1, -1}
Sorts == {NoSort} \cup {<<<<a, d>>>> : a \in Attrs, d \in Directions}
  \cup {s \in {<<<<a, d>>, <<b, e>>>> : a \in Attrs, b \in Attrs, d \in Directions, e \in Directions} :
          s[1][1] # s[2][1]}
\* the wheres that compare an attribute with a value of its type
TypedWheres == {w \in Wheres : \A a \in DOMAIN w : w[a] \in AttrVals(a)}
\* every criteria object over the values of the model
AllOptions == [where : TypedWheres,
               sort : Sorts, skip : Pages, limit : Pages]
\* the criteria the caller passes: a where, or the whole collection sorted
\* by name, or a page of it
Options == {o \in AllOptions :
              /\ (o.where = NoWhere \/ (o.skip = 0 /\ o.limit = 0))
              /\ (o.skip = 0 \/ o.limit = 0)
              /\ o.sort \in {NoSort, <<<<"name", -1>>>>}
              /\ (o.sort = NoSort \/ (o.where = NoWhere /\ o.skip = 0 /\ o.limit = 0))}
NoOptions == [where |-> NoWhere, sort |-> NoSort, skip |-> 0, limit |-> 0]

\* the values of an update set one attribute
Partials == {r \in Records : Cardinality(DOMAIN r) = 1}

\* one record, or a list of records that leave the id to the store
Batches == [1..1 -> Records] \cup
           UNION {[1..n -> {r \in Records : "id" \notin DOMAIN r}] : n \in BatchSizes}

\* a completion: computed holds the records as they were when the operation
\* ran, refs the objects that are handed over by reference
Completion(id, op, c, err, computed, refs) ==
  [id |-> id, op |-> op, coll |-> c, err |-> err, computed |-> computed, refs |-> refs]

\* what the callback receives: an object passed by reference is read when
\* the callback runs
Delivered(cmp, h) ==
  IF cmp.refs = <<>> THEN cmp.computed
  ELSE [k \in 1..Len(cmp.refs) |-> h[cmp.refs[k]]]

\* the record of a callback that ran: inside the issuing call (sync) or on a
\* later turn
Ran(cmp, sync) ==
  [id |-> cmp.id, coll |-> cmp.coll, err |-> cmp.err.code, sync |-> sync]

\* ---------------------------------------------------------------- DDL
\* a variant of setCollection that starts the collection anew: no records,
\* counters unset
setCollectionAnew(st, c, definition) ==
  [st EXCEPT !.data[c] = <<>>,
             !.hasData = st.hasData \cup {c},
             !.counters[c] = [a \in Attrs |-> 0],
             !.schema[c] = definition]

\* setCollection: data and counters are kept when present, the schema is replaced
setCollection(st, c, definition) ==
  [st EXCEPT !.data[c] = IF c \in st.hasData THEN st.data[c] ELSE <<>>,
             !.hasData = st.hasData \cup {c},
             !.schema[c] = definition]

\* dropCollection: data and schema go, the counters stay
dropCollection(st, c, relations) ==
  [st EXCEPT !.data = [x \in Names |-> IF x \in {c} \cup relations THEN <<>> ELSE st.data[x]],
             !.hasData = st.hasData \ ({c} \cup relations),
             !.schema = [x \in Names |-> IF x \in {c} \cup relations THEN NoSchema
                                         ELSE st.schema[x]]]

\* new Database(config, collections)
EmptyStore ==
  [schema |-> [c \in Names |-> NoSchema],
   data |-> [c \in Names |-> <<>>],
   hasData |-> {},
   counters |-> [c \in Names |-> [a \in Attrs |-> 0]],
   heap |-> [o \in Oids |-> EmptyRec],
   nobj |-> 0]

\* ---------------------------------------------------------------- connections
\* the identities a connection may carry; the operations of the adapter are
\* issued on Connection, whose Database is the store above
Identities == {"default", "other"}
Connection == "default"
\* a connection without identity, and teardown called without a connection
NoIdentity == ""
AllConnections == "*"

IdentityMissing == [code |-> "IdentityMissing", invalidAttributes |-> {}]
IdentityDuplicate == [code |-> "IdentityDuplicate", invalidAttributes |-> {}]

\* a variant of the construction that takes over what the store holds
newDatabaseOver(st, definition) ==
  IF definition = NoSchema THEN st ELSE setCollection(st, "user", definition)

\* new Database(connection, collections) and initialize: no data, schema or
\* counters, then every collection handed over is registered (none, or user
\* with its definition); the objects that exist stay what they are
newDatabase(st, definition) ==
  LET fresh == [EmptyStore EXCEPT !.heap = st.heap, !.nobj = st.nobj]
  IN IF definition = NoSchema THEN fresh ELSE setCollection(fresh, "user", definition)

\* registerConnection: the identities registered, the store of Connection
\* and the error reported
registerConnection(cs, st, identity, definition) ==
  IF identity = NoIdentity
  THEN [connections |-> cs, st |-> st, err |-> IdentityMissing]
  ELSE IF identity \in cs
  THEN [connections |-> cs, st |-> st, err |-> IdentityDuplicate]
  ELSE [connections |-> cs \cup {identity},
        st |-> IF identity = Connection THEN newDatabase(st, definition) ELSE st,
        err |-> NoError]

\* teardown: connections = {}, or delete connections[conn]
teardown(cs, conn) ==
  IF conn = AllConnections THEN {} ELSE cs \ {conn}

\* ---------------------------------------------------------------- adapter
\* registerConnection -> initialize: the collections of the connection, if
\* any, are registered with their definitions
Init ==
  /\ \E definition \in Definitions \cup {NoSchema} :
       LET st == IF definition = NoSchema THEN EmptyStore
                 ELSE setCollection(EmptyStore, "user", definition)
       IN /\ schema = st.schema
          /\ data = st.data
          /\ hasData = st.hasData
          /\ counters = st.counters
          /\ heap = st.heap
          /\ nobj = st.nobj
          /\ serial = st
  /\ timers = <<>>
  /\ last = Ran(Completion(0, "none", "user", NoError, <<>>, <<>>), FALSE)
  /\ nops = 0
  /\ nmut = 0
  /\ called = [n \in 1..MaxOps |-> 0]
  /\ connections = {Connection}

\* an operation of the adapter reaches the store through connections[conn]
CanIssue == nops < MaxOps /\ Len(timers) < MaxPending /\ Connection \in connections

\* setTimeout(function() { cb(...) }, 0)
Defer(cmp) == timers' = Append(timers, cmp) /\ UNCHANGED <<last, called>>

\* cb(...) invoked before the issuing call returns
CallbackNow(cmp) ==
  /\ last' = Ran(cmp, TRUE)
  /\ called' = [called EXCEPT ![cmp.id] = @ + 1]
  /\ UNCHANGED timers

\* adapter.define -> createCollection -> setCollection
Define(c, definition) ==
  /\ CanIssue
  /\ Assign(setCollection(Store, c, definition))
  /\ serial' = setCollection(serial, c, definition)
  /\ Defer(Completion(nops + 1, "define", c, NoError, <<>>, <<>>))
  /\ nops' = nops + 1
  /\ UNCHANGED <<nmut, connections>>

\* adapter.describe -> describe -> getCollection
Describe(c) ==
  /\ CanIssue
  /\ Defer(Completion(nops + 1, "describe", c, NoError, <<>>, <<>>))
  /\ nops' = nops + 1
  /\ UNCHANGED <<schema, data, hasData, counters, heap, nobj, nmut, connections, serial>>

\* adapter.drop -> dropCollection
Drop(c, relations) ==
  /\ CanIssue
  /\ Assign(dropCollection(Store, c, relations))
  /\ serial' = dropCollection(serial, c, relations)
  /\ Defer(Completion(nops + 1, "drop", c, NoError, <<>>, <<>>))
  /\ nops' = nops + 1
  /\ UNCHANGED <<nmut, connections>>

\* adapter.registerConnection: the callback runs at once on a refusal and
\* when there is no collection to register (async.eachSeries on an empty
\* list), after the timer of setCollection otherwise
RegisterConnection(identity, definition) ==
  /\ nops < MaxOps /\ Len(timers) < MaxPending
  /\ LET r == registerConnection(connections, Store, identity, definition)
         cmp == Completion(nops + 1, "registerConnection", "user", r.err, <<>>, <<>>)
     IN /\ connections' = r.connections
        /\ Assign(r.st)
        /\ IF r.err = NoError /\ identity = Connection /\ definition # NoSchema
           THEN Defer(cmp)
           ELSE CallbackNow(cmp)
  /\ serial' = registerConnection(connections, serial, identity, definition).st
  /\ nops' = nops + 1
  /\ UNCHANGED nmut

\* adapter.teardown: the Database of a connection torn down is no longer
\* reachable; cb() runs before teardown returns
Teardown(conn) ==
  /\ nops < MaxOps
  /\ connections' = teardown(connections, conn)
  /\ CallbackNow(Completion(nops + 1, "teardown", "user", NoError, <<>>, <<>>))
  /\ nops' = nops + 1
  /\ UNCHANGED <<schema, data, hasData, counters, heap, nobj, nmut, serial>>

\* ---------------------------------------------------------------- DQL
\* the values a reducer may produce besides numbers: null, NaN (0 / 0) and
\* a quotient that is no integer
Null == <<"null">>
NaN == <<"nan">>
Divide(sum, cnt) ==
  IF cnt = 0 THEN NaN
  ELSE IF sum % cnt = 0 THEN Num(sum \div cnt)
  ELSE <<"q", sum, cnt>>

\* options.groupBy and the like: a key the caller left out is undefined
HasOption(options, k) == k \in DOMAIN options
Reducers == {"sum", "average", "min", "max"}
AggregateError == [code |-> "Cannot groupBy without a calculation", invalidAttributes |-> {}]

\* key += item[groupKey] + '---' over the groupBy attributes
RECURSIVE GroupKey(_, _)
GroupKey(item, groupBy) ==
  IF groupBy = <<>> THEN <<>>
  ELSE StringOf(Get(item, Head(groupBy))) \o <<"-", "-", "-">> \o GroupKey(item, Tail(groupBy))

\* the keys of groupCollector, in the order in which they were first seen
RECURSIVE GroupKeys(_, _)
GroupKeys(resultSet, groupBy) ==
  IF resultSet = <<>> THEN <<>>
  ELSE LET before == GroupKeys(SubSeq(resultSet, 1, Len(resultSet) - 1), groupBy)
           key == GroupKey(resultSet[Len(resultSet)], groupBy)
       IN IF \E k \in 1..Len(before) : before[k] = key THEN before ELSE Append(before, key)

\* groupedResults: the result set split up by group, or as one group
Groups(options, resultSet) ==
  IF HasOption(options, "groupBy")
  THEN LET keys == GroupKeys(resultSet, options.groupBy) IN
       [g \in 1..Len(keys) |->
          SelectSeq(resultSet, LAMBDA item : GroupKey(item, options.groupBy) = keys[g])]
  ELSE <<resultSet>>

\* the stub of a group: the groupBy values of its first member
Stub(options, group) ==
  IF HasOption(options, "groupBy")
  THEN [k \in {a \in {options.groupBy[j] : j \in 1..Len(options.groupBy)} :
                 Get(group[1], a) # Undef} |-> group[1][k]]
  ELSE EmptyRec

\* the numbers a group holds for an attribute (typeof item[key] === 'number')
Numeric(group, key) ==
  SelectSeq([k \in 1..Len(group) |-> Get(group[k], key)], IsNum)

RECURSIVE SumOf(_)
SumOf(nums) == IF nums = <<>> THEN 0 ELSE Head(nums)[2] + SumOf(Tail(nums))

\* the smallest and the largest of a non-empty list of numbers
Smallest(nums) ==
  CHOOSE n \in {nums[k][2] : k \in 1..Len(nums)} : \A k \in 1..Len(nums) : n <= nums[k][2]
Largest(nums) ==
  CHOOSE n \in {nums[k][2] : k \in 1..Len(nums)} : \A k \in 1..Len(nums) : n >= nums[k][2]

\* what a reducer writes for one attribute of one group
sum(group, key) == Num(SumOf(Numeric(group, key)))
average(group, key) == Divide(SumOf(Numeric(group, key)), Len(Numeric(group, key)))
\* a variant of min that hands out its start value when the group holds no number
Infinity == <<"inf">>
minWithoutFallback(group, key) ==
  IF Numeric(group, key) = <<>> THEN Infinity ELSE Num(Smallest(Numeric(group, key)))

\* isFinite(min) ? min : null
min(group, key) ==
  IF Numeric(group, key) = <<>> THEN Null ELSE Num(Smallest(Numeric(group, key)))
max(group, key) ==
  IF Numeric(group, key) = <<>> THEN Null ELSE Num(Largest(Numeric(group, key)))

Reduce(reducer, group, key) ==
  CASE reducer = "sum" -> sum(group, key)
    [] reducer = "average" -> average(group, key)
    [] reducer = "min" -> min(group, key)
    [] OTHER -> max(group, key)

\* one reducer over the attributes it lists, written into the stub
RECURSIVE ReduceKeys(_, _, _, _)
ReduceKeys(reducer, keys, group, stub) ==
  IF keys = <<>> THEN stub
  ELSE ReduceKeys(reducer, Tail(keys), group, Put(stub, Head(keys), Reduce(reducer, group, Head(keys))))

\* sum, average, min and max, in this order, where the options list them
RECURSIVE ReduceAll(_, _, _, _)
ReduceAll(options, order, group, stub) ==
  IF order = <<>> THEN stub
  ELSE ReduceAll(options, Tail(order), group,
                 IF HasOption(options, Head(order))
                 THEN ReduceKeys(Head(order), options[Head(order)], group, stub)
                 ELSE stub)

\* a variant of the aggregation that groups without asking for a reducer
AggregateUnguarded(options, resultSet) ==
  IF ~HasOption(options, "groupBy") /\ \A r \in Reducers : ~HasOption(options, r)
  THEN [error |-> NoError, results |-> resultSet]
  ELSE LET groups == Groups(options, resultSet) IN
       [error |-> NoError,
        results |-> [g \in 1..Len(groups) |->
                       ReduceAll(options, <<"sum", "average", "min", "max">>, groups[g],
                                 Stub(options, groups[g]))]]

\* the aggregation of a result set: untouched without groupBy and reducers,
\* an error for groupBy without reducer, one output record per group otherwise
Aggregate(options, resultSet) ==
  IF ~HasOption(options, "groupBy") /\ \A r \in Reducers : ~HasOption(options, r)
  THEN [error |-> NoError, results |-> resultSet]
  ELSE IF \A r \in Reducers : ~HasOption(options, r)
  THEN [error |-> AggregateError, results |-> <<>>]
  ELSE LET groups == Groups(options, resultSet) IN
       [error |-> NoError,
        results |-> [g \in 1..Len(groups) |->
                       ReduceAll(options, <<"sum", "average", "min", "max">>, groups[g],
                                 Stub(options, groups[g]))]]

\* the key getMatchIndices writes on the records while it matches them
origIndexKey == "_waterline_dirty_origindex"

\* throw new Error('Invalid query syntax!')
InvalidQuerySyntax == [code |-> "Invalid query syntax!", invalidAttributes |-> {}]

\* the objects of a collection
ObjectsOf(st, c) ==
  IF c \in st.hasData THEN {st.data[c][i] : i \in 1..Len(st.data[c])} ELSE {}

\* model[origIndexKey] = index, on every record of the collection (the
\* clone of the list holds the stored objects themselves)
markOrigIndex(st, c) ==
  [st EXCEPT !.heap = [o \in DOMAIN st.heap |->
     IF o \in ObjectsOf(st, c)
     THEN Put(st.heap[o], origIndexKey, Num(PositionIn(st.data[c], o) - 1))
     ELSE st.heap[o]]]

\* delete datum[origIndexKey], on every record of the collection
deleteOrigIndex(st, c) ==
  [st EXCEPT !.heap = [o \in DOMAIN st.heap |->
     IF o \in ObjectsOf(st, c)
     THEN [k \in (DOMAIN st.heap[o]) \ {origIndexKey} |-> st.heap[o][k]]
     ELSE st.heap[o]]]

\* applyFilter throws: the match of one of the records does; the delete
\* loop at the end of getMatchIndices is then not reached
getMatchIndicesThrows(recs, options) ==
  \E i \in 1..Len(recs) : matchSetThrows(recs[i], options.where)

\* the store after select, and the error and results of the aggregation
selectMatched(st, c, options, aggregate) ==
  [st |-> st, err |-> aggregate.error, results |-> aggregate.results]

\* select(collectionName, options, cb) up to its timer: the store is left
\* with the key on its records when the matching throws
select(st, c, options) ==
  IF getMatchIndicesThrows(Recs(st, c), options)
  THEN [st |-> markOrigIndex(st, c), err |-> InvalidQuerySyntax, results |-> <<>>]
  ELSE selectMatched(deleteOrigIndex(st, c), c, options,
                     Aggregate(options, waterlineCriteria(Recs(deleteOrigIndex(st, c), c),
                                                          options).results))

\* an exception leaves the call: no callback is invoked, now or later
Thrown == UNCHANGED <<timers, last, called>>

\* select: the matches are computed and aggregated now and handed over, or
\* the error of the aggregation, on a later turn
Select(c, options) ==
  /\ CanIssue
  /\ Assign(select(Store, c, options).st)
  /\ IF select(Store, c, options).err = InvalidQuerySyntax
     THEN Thrown
     ELSE Defer(Completion(nops + 1, "select", c, select(Store, c, options).err,
                           select(Store, c, options).results, <<>>))
  /\ serial' = select(serial, c, options).st
  /\ nops' = nops + 1
  /\ UNCHANGED <<nmut, connections>>

\* ---------------------------------------------------------------- DML
\* one turn of insert's loop over the records of the call: uniqueness check,
\* auto-increment, serialization, then the push of the caller's own object
InsertOne(c, r, record) ==
  LET st == r.st
      sch == st.schema[c]
      violations == enforceUniqueness(sch, Recs(st, c), record, {}, FALSE)
      ai == autoIncrement(sch, st.counters[c], record)
      stored == serializeValues(sch, ai.values)
      oid == st.nobj + 1
  IN IF violations # <<>> THEN [r EXCEPT !.errors = violations]
     ELSE IF c \notin st.hasData
          THEN [r EXCEPT !.st.counters[c] = ai.counters, !.notRegistered = TRUE]
          ELSE [r EXCEPT !.st.counters[c] = ai.counters,
                         !.st.heap[oid] = stored,
                         !.st.data[c] = Append(st.data[c], oid),
                         !.st.nobj = oid,
                         !.pushed = Append(r.pushed, oid)]

RECURSIVE InsertLoop(_, _, _, _)
InsertLoop(c, r, values, i) ==
  IF i > Len(values) \/ r.errors # <<>> \/ r.notRegistered THEN r
  ELSE InsertLoop(c, InsertOne(c, r, values[i]), values, i + 1)

\* a variant of insert that takes the records of the call back when one of
\* them violates uniqueness
insertRolledBack(st, c, values) ==
  LET r == InsertLoop(c, [st |-> st, pushed |-> <<>>, errors |-> <<>>,
                          notRegistered |-> FALSE], values, 1)
  IN IF r.errors # <<>>
     THEN [st |-> st, pushed |-> <<>>, err |-> UniquenessError(r.errors)]
     ELSE [st |-> r.st, pushed |-> r.pushed,
           err |-> IF r.notRegistered THEN CollectionNotRegistered ELSE NoError]

\* the store after insert, the objects it pushed and the error it reports
insert(st, c, values) ==
  LET r == InsertLoop(c, [st |-> st, pushed |-> <<>>, errors |-> <<>>,
                          notRegistered |-> FALSE], values, 1)
  IN [st |-> r.st, pushed |-> r.pushed,
      err |-> IF r.notRegistered THEN CollectionNotRegistered
              ELSE IF r.errors # <<>> THEN UniquenessError(r.errors)
              ELSE NoError]

\* insert(collectionName, values, cb): values is one record, or a list of
\* records when it has more than one element.  An error is reported before
\* insert returns, the inserted objects themselves on a later turn.
Insert(c, values) ==
  /\ CanIssue
  /\ nobj + Len(values) <= MaxObj
  /\ LET r == insert(Store, c, values) IN
     /\ Assign(r.st)
     /\ IF r.err = NoError
        THEN Defer(Completion(nops + 1, "insert", c, NoError,
                              [k \in 1..Len(r.pushed) |-> r.st.heap[r.pushed[k]]], r.pushed))
        ELSE CallbackNow(Completion(nops + 1, "insert", c, r.err, <<>>, <<>>))
  /\ serial' = insert(serial, c, values).st
  /\ nops' = nops + 1
  /\ UNCHANGED <<nmut, connections>>

\* _.pluck(resultSet.results, 'id')
PluckId(results) == {Get(results[k], "id") : k \in 1..Len(results)}

\* update's loop: values are merged into every matched object, in place
UpdateHeap(h, d, indices, values) ==
  [o \in DOMAIN h |->
     IF \E k \in 1..Len(indices) : d[indices[k]] = o THEN Extend(h[o], values) ELSE h[o]]

\* the store after update, the copies it returns and the error it reports
updateMatched(st, c, options, values) ==
  LET resultSet == waterlineCriteria(Recs(st, c), options)
      resultIds == PluckId(resultSet.results)
      violations == enforceUniqueness(st.schema[c], Recs(st, c), values, resultIds, TRUE)
      h == UpdateHeap(st.heap, st.data[c], resultSet.indices, values)
  IN IF violations # <<>>
     THEN [st |-> st, results |-> <<>>, err |-> UniquenessError(violations)]
     ELSE [st |-> [st EXCEPT !.heap = h],
           results |-> [k \in 1..Len(resultSet.indices) |-> h[st.data[c][resultSet.indices[k]]]],
           err |-> NoError]

\* update up to its callback: the matching may throw before anything else
update(st, c, options, values) ==
  IF getMatchIndicesThrows(Recs(st, c), options)
  THEN [st |-> markOrigIndex(st, c), results |-> <<>>, err |-> InvalidQuerySyntax]
  ELSE updateMatched(deleteOrigIndex(st, c), c, options, values)

\* update(collectionName, options, values, cb)
Update(c, options, values) ==
  /\ CanIssue
  /\ LET r == update(Store, c, options, values) IN
     /\ Assign(r.st)
     /\ IF r.err = NoError
        THEN Defer(Completion(nops + 1, "update", c, NoError, r.results, <<>>))
        ELSE IF r.err = InvalidQuerySyntax
        THEN Thrown
        ELSE CallbackNow(Completion(nops + 1, "update", c, r.err, <<>>, <<>>))
  /\ serial' = update(serial, c, options, values).st
  /\ nops' = nops + 1
  /\ UNCHANGED <<nmut, connections>>

\* a variant of the removal that drops only the first of the matched positions
RejectFirst(d, indices) ==
  LET kept == SelectSeq(Indices(d), LAMBDA i : indices = <<>> \/ indices[1] # i)
  IN [k \in 1..Len(kept) |-> d[kept[k]]]

\* _.reject(data, (model, i) => _.contains(indices, i))
Reject(d, indices) ==
  LET kept == SelectSeq(Indices(d), LAMBDA i : ~\E k \in 1..Len(indices) : indices[k] = i)
  IN [k \in 1..Len(kept) |-> d[kept[k]]]

\* the store after destroy and the copies it returns; _.reject of a missing
\* list is an empty list
destroyMatched(st, c, resultSet) ==
  [st |-> [st EXCEPT !.data[c] = Reject(st.data[c], resultSet.indices),
                     !.hasData = st.hasData \cup {c}],
   results |-> resultSet.results,
   err |-> NoError]

\* destroy up to its timer: the matching may throw before anything else
destroy(st, c, options) ==
  IF getMatchIndicesThrows(Recs(st, c), options)
  THEN [st |-> markOrigIndex(st, c), results |-> <<>>, err |-> InvalidQuerySyntax]
  ELSE destroyMatched(deleteOrigIndex(st, c), c,
                      waterlineCriteria(Recs(deleteOrigIndex(st, c), c), options))

\* destroy(collectionName, options, cb)
Destroy(c, options) ==
  /\ CanIssue
  /\ LET r == destroy(Store, c, options) IN
     /\ Assign(r.st)
     /\ IF r.err = InvalidQuerySyntax
        THEN Thrown
        ELSE Defer(Completion(nops + 1, "destroy", c, NoError, r.results, <<>>))
  /\ serial' = destroy(serial, c, options).st
  /\ nops' = nops + 1
  /\ UNCHANGED <<nmut, connections>>

\* ---------------------------------------------------------------- scheduling
\* a variant in which the function deferred by update writes the updated copies back
\* into the first positions of the collection
AfterCompletionWritesBack(cmp, st) ==
  IF cmp.op # "update" THEN st
  ELSE LET d == st.data[cmp.coll]
           n == IF Len(cmp.computed) < Len(d) THEN Len(cmp.computed) ELSE Len(d)
       IN [st EXCEPT !.heap = [o \in DOMAIN st.heap |->
             IF \E k \in 1..n : d[k] = o
             THEN cmp.computed[CHOOSE k \in 1..n : d[k] = o]
             ELSE st.heap[o]]]

\* the function deferred by an operation only calls cb: the store stays as
\* the operation left it
AfterCompletion(cmp, st) == st

\* the oldest timer runs on a later turn
FireTimer ==
  /\ timers # <<>>
  /\ last' = Ran(Head(timers), FALSE)
  /\ called' = [called EXCEPT ![Head(timers).id] = @ + 1]
  /\ Assign(AfterCompletion(Head(timers), Store))
  /\ timers' = Tail(timers)
  /\ UNCHANGED <<nops, nmut, connections, serial>>

\* the caller writes a key of an object it handed to insert (the object
\* insert hands back), in this run and in the serial one
CallerMutate(o, a, v) ==
  /\ nmut < MaxMut
  /\ o \in 1..nobj
  /\ Get(heap[o], a) # v
  /\ heap' = [heap EXCEPT ![o] = Put(heap[o], a, v)]
  /\ serial' = [serial EXCEPT !.heap[o] = Put(serial.heap[o], a, v)]
  /\ nmut' = nmut + 1
  /\ UNCHANGED <<schema, data, hasData, counters, nobj, timers, last, nops, called,
                 connections>>

\* the operations of the adapter and the timers
NextOps ==
  \/ \E c \in Colls, d \in Definitions : Define(c, d)
  \/ \E c \in Colls : Describe(c)
  \/ \E c \in Colls : \E r \in SUBSET (Colls \ {c}) : Drop(c, r)
  \/ \E c \in Colls, o \in Options : Select(c, o)
  \/ \E c \in Colls, vs \in Batches : Insert(c, vs)
  \/ \E c \in Colls, o \in Options, v \in Partials : Update(c, o, v)
  \/ \E c \in Colls, o \in Options : Destroy(c, o)
  \/ FireTimer

Next ==
  \/ NextOps
  \/ \E o \in Oids, a \in Attrs : \E v \in AttrVals(a) : CallerMutate(o, a, v)

\* the caller keeps its hands off the objects it passed and received
SpecOps == Init /\ [][NextOps]_vars

\* the caller may also write to those objects
Spec == Init /\ [][Next]_vars

\* the integers a caller supplies for an auto-increment attribute: negative,
\* zero and positive
CounterNumbers == {-1, 0, 1}
CounterRecords == {EmptyRec} \cup {[a \in {"id"} |-> Num(n)] : n \in CounterNumbers}

\* inserts of one record each, updates and destroys
NextCounter ==
  \/ \E c \in Colls, rec \in CounterRecords : Insert(c, <<rec>>)
  \/ \E c \in Colls, o \in Options, v \in Partials : Update(c, o, v)
  \/ \E c \in Colls, o \in Options : Destroy(c, o)
  \/ FireTimer

\* the lifetime of a collection whose inserts supply any integer
SpecCounter == Init /\ [][NextCounter]_vars

\* the strings and the patterns of the like queries
LikeNames == {"foo", "FOO", "boot", "bar", "5%", "5x"}
LikePatterns == {"%oo%", "foo", "f%", "oo", "%", "5%%%"}
LikeRecords == {[a \in {"name"} |-> Str(s)] : s \in LikeNames}
LikeOptions ==
  {[NoOptions EXCEPT !.where = [k \in {"like"} |-> [a \in {"name"} |-> Str(pat)]]] :
     pat \in LikePatterns}

\* a store whose collection, defined without attributes, holds records
\* that were inserted as they are
InitHolding(records) ==
  /\ \E n \in 0..MaxObj : \E recs \in [1..n -> records] :
       LET st == [setCollection(EmptyStore, "user", NoSchema) EXCEPT
                    !.heap = [o \in Oids |-> IF o <= n THEN recs[o] ELSE EmptyRec],
                    !.data["user"] = [k \in 1..n |-> k],
                    !.nobj = n]
       IN /\ schema = st.schema
          /\ data = st.data
          /\ hasData = st.hasData
          /\ counters = st.counters
          /\ heap = st.heap
          /\ nobj = st.nobj
          /\ serial = st
  /\ timers = <<>>
  /\ last = Ran(Completion(0, "none", "user", NoError, <<>>, <<>>), FALSE)
  /\ nops = 0
  /\ nmut = 0
  /\ called = [n \in 1..MaxOps |-> 0]
  /\ connections = {Connection}

InitLike == InitHolding(LikeRecords)

\* selects and destroys by a like pattern
NextLike ==
  \/ \E c \in Colls, o \in LikeOptions : Select(c, o)
  \/ \E c \in Colls, o \in LikeOptions : Destroy(c, o)
  \/ FireTimer

SpecLike == InitLike /\ [][NextLike]_vars

\* the records and the options of the aggregating selects: groupBy name
\* or no grouping, and the reducers on id, whose value is a number, a
\* string or missing
AggRecords == Records \cup {[a \in Attrs |-> IF a = "id" THEN Str("1") ELSE Str("a")]}
AggOptions ==
  {Extend(Extend(NoOptions, g), r) :
     g \in {EmptyRec, [k \in {"groupBy"} |-> <<"name">>]},
     r \in {EmptyRec} \cup {[k \in {red} |-> <<"id">>] : red \in Reducers}}

InitAgg == InitHolding(AggRecords)

\* selects with and without aggregation
NextAgg ==
  \/ \E c \in Colls, o \in AggOptions : Select(c, o)
  \/ FireTimer

SpecAgg == InitAgg /\ [][NextAgg]_vars

\* the operations under either spelling of the name
NextNames ==
  \/ \E c \in Names : Define(c, SchemaUser)
  \/ \E c \in Names : Describe(c)
  \/ \E c \in Names : Drop(c, {})
  \/ \E c \in Names : Select(c, NoOptions)
  \/ \E c \in Names, rec \in {EmptyRec, [a \in {"name"} |-> Str("a")]} : Insert(c, <<rec>>)
  \/ \E c \in Names : Update(c, NoOptions, [a \in {"name"} |-> Str("b")])
  \/ \E c \in Names : Destroy(c, NoOptions)
  \/ FireTimer

SpecNames == Init /\ [][NextNames]_vars

\* connections torn down and registered again between inserts, defines and
\* selects
NextConn ==
  \/ \E identity \in Identities \cup {NoIdentity}, d \in {NoSchema, SchemaUser} :
       RegisterConnection(identity, d)
  \/ \E conn \in Identities \cup {AllConnections} : Teardown(conn)
  \/ \E c \in Colls : Define(c, SchemaUser)
  \/ \E c \in Colls : Insert(c, <<EmptyRec>>)
  \/ \E c \in Colls : Select(c, NoOptions)
  \/ FireTimer

SpecConn == Init /\ [][NextConn]_vars

\* criteria on the id: none, a value, an operator, and objects with a key
\* that is no operator after and before one that is
CriteriaWheres ==
  {NoWhere, [k \in {"id"} |-> Num(1)]}
  \cup {[k \in {"id"} |-> crit] :
          crit \in {Obj(<<<<">", Num(1)>>>>),
                    Obj(<<<<">", Num(1)>>, <<"foo", Num(1)>>>>),
                    Obj(<<<<"foo", Num(1)>>, <<">", Num(1)>>>>)}}
CriteriaOptions == {[NoOptions EXCEPT !.where = w] : w \in CriteriaWheres}

\* inserts, and queries whose criteria may be malformed
NextCriteria ==
  \/ \E c \in Colls, rec \in {EmptyRec, [a \in {"name"} |-> Str("a")]} : Insert(c, <<rec>>)
  \/ \E c \in Colls, o \in CriteriaOptions : Select(c, o)
  \/ \E c \in Colls, o \in CriteriaOptions : Update(c, o, [a \in {"name"} |-> Str("a")])
  \/ \E c \in Colls, o \in CriteriaOptions : Destroy(c, o)
  \/ FireTimer

\* a timer set with setTimeout(fn, 0) runs once the event loop gets to it
SpecCriteria == Init /\ [][NextCriteria]_vars /\ WF_vars(FireTimer)

\* ---------------------------------------------------------------- claims
UniqueAttrs(c) == {a \in DOMAIN schema[c] : schema[c][a].unique}
AutoAttrs(sch) == {a \in DOMAIN sch : sch[a].autoIncrement}
Positions(c) == 1..Len(DataRecs(c))

\* C1: no two live records of a collection hold the same defined value for
\* an attribute flagged unique
C1_UniqueValuesDistinct ==
  \A c \in Colls : \A a \in UniqueAttrs(c) : \A i, j \in Positions(c) :
    (i < j /\ Get(DataRecs(c)[i], a) # Undef)
      => Get(DataRecs(c)[i], a) # Get(DataRecs(c)[j], a)

\* C2: no two live records of a collection have the same primary-key value
C2_PrimaryKeysDistinct ==
  \A c \in Colls : \A i, j \in Positions(c) :
    LET pk == getPrimaryKey(schema[c]) IN
    (pk # NoAttr /\ i < j /\ Get(DataRecs(c)[i], pk) # Undef)
      => Get(DataRecs(c)[i], pk) # Get(DataRecs(c)[j], pk)

\* the record carries, for a unique attribute, the value a stored record holds
HoldsStoredUnique(c, rec) ==
  \E a \in UniqueAttrs(c) : \E i \in Positions(c) :
    Get(rec, a) # Undef /\ Get(rec, a) = Get(DataRecs(c)[i], a)

\* C3: inserting a record whose value for a unique attribute equals the
\* value held by a stored record fails with E_UNIQUE and leaves the
\* collection as it was
C3_DuplicateInsertRejected ==
  \A c \in Colls : \A rec \in Records :
    (nobj < MaxObj /\ HoldsStoredUnique(c, rec))
      => LET r == insert(Store, c, <<rec>>) IN
         r.err.code = "E_UNIQUE" /\ Recs(r.st, c) = DataRecs(c)

\* C4: an update that matches two or more records and sets a unique
\* attribute fails with E_UNIQUE and modifies no record
C4_MultiRecordUniqueUpdateRejected ==
  \A c \in Colls : \A o \in Options : \A v \in Partials :
    (/\ Len(waterlineCriteria(DataRecs(c), o).indices) >= 2
     /\ \E a \in DOMAIN v : a \in UniqueAttrs(c))
      => LET r == update(Store, c, o, v) IN
         r.err.code = "E_UNIQUE" /\ Recs(r.st, c) = DataRecs(c)

\* C5: a write of the caller to an object it passed to, or received from,
\* insert does not change the records a select returns
C5_CallerWritesInvisible ==
  [][nmut' # nmut => \A c \in Colls : DataRecs(c)' = DataRecs(c)]_vars

\* C6: no callback runs before the call that issued the operation returned
C6_CompletionDeferred == ~last.sync

\* C7: completions fire in issuance order: no operation is still waiting
\* when an operation issued after it on the same collection has completed
C7_CompletionsFifo ==
  \A k \in 1..Len(timers) : timers[k].coll = last.coll => timers[k].id > last.id

C9_DeliveredAsComputed ==
  \A k \in 1..Len(timers) : Delivered(timers[k], heap) = timers[k].computed

\* the values assigned to attribute a by n successive inserts of records
\* that leave every attribute out
RECURSIVE Assigned(_, _, _, _)
Assigned(st, c, a, n) ==
  IF n = 0 THEN <<>>
  ELSE LET r == insert(st, c, <<EmptyRec>>) IN
       <<Get(r.st.heap[r.pushed[1]], a)>> \o Assigned(r.st, c, a, n - 1)

\* C10 (newly defined collection): the inserts that leave out an
\* auto-increment attribute are assigned 1, 2, ..., N
C10_FreshSequence ==
  \A c \in Colls, d \in Definitions :
    (c \notin hasData /\ Define(c, d))
      => \A a \in AutoAttrs(d) :
           LET n == MaxObj - nobj IN
           Assigned(Store', c, a, n) = [k \in 1..n |-> Num(k)]

\* C10 (explicit value): after an insert that supplies v above the counter,
\* the next insert that leaves the attribute out is assigned more than v
C10_ContinuesAbove ==
  \A c \in Colls : \A a \in AutoAttrs(schema[c]) : \A rec \in Records :
    (/\ nobj + 2 <= MaxObj
     /\ c \in hasData
     /\ Get(rec, a) # Undef
     /\ Get(rec, a)[2] > counters[c][a]
     /\ insert(Store, c, <<rec>>).err = NoError)
      => Assigned(insert(Store, c, <<rec>>).st, c, a, 1)[1][2] > Get(rec, a)[2]

\* C10: both parts, at every step
C10_AutoIncrementSequence == [][C10_FreshSequence /\ C10_ContinuesAbove]_vars

\* C11: the counter of an auto-increment attribute never decreases: of two
\* successive inserts of any records, the second leaves the counter at least
\* where the first left it, and updates and destroys leave it alone
C11_CounterNeverDecreases ==
  \A c \in Colls : \A a \in AutoAttrs(schema[c]) :
    /\ \A r1, r2 \in CounterRecords :
         LET s1 == autoIncrement(schema[c], counters[c], r1)
             s2 == autoIncrement(schema[c], s1.counters, r2)
         IN s2.counters[a] >= s1.counters[a]
    /\ \A o \in Options :
         /\ destroy(Store, c, o).st.counters = counters
         /\ \A v \in Partials : update(Store, c, o, v).st.counters = counters

\* C12: after drop followed by define the collection has no record and
\* fresh counters: the first insert that leaves out an auto-increment
\* attribute is assigned 1
C12_DropThenDefineIsFresh ==
  \A c \in Colls : \A d \in Definitions :
    LET st == setCollection(dropCollection(Store, c, {}), c, d) IN
    /\ Recs(st, c) = <<>>
    /\ nobj < MaxObj => \A a \in AutoAttrs(d) : Assigned(st, c, a, 1) = <<Num(1)>>

\* the record collides, on a unique attribute, with a record of the store
Violates(st, c, rec) ==
  enforceUniqueness(st.schema[c], Recs(st, c), rec, {}, FALSE) # <<>>

\* the lists of two records a caller may hand to insert
Pairs == [1..2 -> Records]

\* C13: when the k-th record of a batch violates uniqueness the call
\* reports E_UNIQUE, the records before it stay appended in batch order and
\* the k-th and later records are not appended (k = 1 and k = 2 of two)
C13_BatchPrefixKept ==
  \A c \in Colls : \A vs \in Pairs :
    LET all == insert(Store, c, vs)
        one == insert(Store, c, <<vs[1]>>)
    IN /\ Violates(Store, c, vs[1])
            => all.err.code = "E_UNIQUE" /\ Recs(all.st, c) = DataRecs(c)
       /\ (/\ nobj < MaxObj
           /\ c \in hasData
           /\ ~Violates(Store, c, vs[1])
           /\ Violates(one.st, c, vs[2]))
            => /\ all.err.code = "E_UNIQUE"
               /\ Recs(all.st, c) = Recs(one.st, c)
               /\ Len(Recs(all.st, c)) = Len(DataRecs(c)) + 1

\* the first operation issued was an insert of two records that failed on
\* the second: it reported E_UNIQUE and the first record is stored
C13_Witness ==
  /\ nops = 1
  /\ last.id = 1
  /\ last.err = "E_UNIQUE"
  /\ Len(DataRecs("user")) = 1

\* the completion of the operation issued by a step: deferred, or already run
Issued == IF Len(timers') > Len(timers) THEN timers'[Len(timers')].err.code ELSE last'.err
IssuedOp == IF Len(timers') > Len(timers) THEN timers'[Len(timers')].op ELSE "failed"

\* C14: an insert, select, update or destroy on a collection that is not
\* defined completes with CollectionNotRegistered
C14_UndefinedCollectionRejected ==
  [][\A c \in Colls :
       (c \notin hasData /\ nops' = nops + 1 /\ IssuedOp \notin {"define", "describe", "drop"})
         => Issued = "CollectionNotRegistered"]_vars

\* C15: update and destroy apply neither sort nor skip nor limit: the
\* records updated, and the records removed, are exactly the records that
\* match the where of the criteria
C15_MutationsIgnorePaging ==
  \A c \in Colls : \A o \in AllOptions :
    /\ Recs(destroy(Store, c, o).st, c)
         = SelectSeq(DataRecs(c), LAMBDA rec : ~matchSet(rec, o.where))
    /\ \A v \in Partials :
         LET r == update(Store, c, o, v) IN
         r.err = NoError =>
           Recs(r.st, c) = [i \in Positions(c) |->
                              IF matchSet(DataRecs(c)[i], o.where)
                              THEN Extend(DataRecs(c)[i], v)
                              ELSE DataRecs(c)[i]]

\* the criteria that pin attribute a to value v
WherePins(a, v) == [where |-> [k \in {a} |-> v], sort |-> NoSort, skip |-> 0, limit |-> 0]

\* C16: after a successful insert into a collection with a primary key, the
\* select whose where pins the primary key to the value of the inserted
\* record returns that record and no other
C16_InsertSelectRoundTrip ==
  \A c \in Colls : \A rec \in Records :
    LET pk == getPrimaryKey(schema[c])
        r == insert(Store, c, <<rec>>)
        stored == r.st.heap[r.pushed[1]]
    IN (nobj < MaxObj /\ c \in hasData /\ pk # NoAttr /\ r.err = NoError)
         => waterlineCriteria(Recs(r.st, c), WherePins(pk, Get(stored, pk))).results
              = <<stored>>

\* x comes before y under the directives from the i-th on: the first
\* directive on which they differ decides, by its direction
RECURSIVE LexBefore(_, _, _, _, _)
LexBefore(recs, sort, i, x, y) ==
  IF i > Len(sort) THEN x < y
  ELSE LET cmp == SortCompare(Get(recs[x], sort[i][1]), Get(recs[y], sort[i][1])) IN
       IF cmp = 0 THEN LexBefore(recs, sort, i + 1, x, y)
       ELSE IF sort[i][2] = 1 THEN cmp < 0 ELSE cmp > 0

\* C17: select orders the matches lexicographically by the directives, the
\* first one first, and keeps the collection order of records equal on all
\* of them, for ascending and descending directions
C17_StableLexicographicSort ==
  \A c \in Colls : \A sort \in Sorts :
    LET recs == DataRecs(c)
        s == getMatchIndices(recs, [NoOptions EXCEPT !.sort = sort])
    IN \A j, k \in 1..Len(s) : j < k => LexBefore(recs, sort, 1, s[j], s[k])

Min(a, b) == IF a < b THEN a ELSE b

\* C18: select returns the records at positions skip+1 .. skip+limit of
\* the sorted match list, for every skip and limit from 0 on; never more
\* than limit records
C18_SkipThenLimit ==
  \A c \in Colls : \A o \in AllOptions :
    LET recs == DataRecs(c)
        sorted == applySort(recs, applyFilter(recs, o.where), o.sort)
        res == waterlineCriteria(recs, o).indices
    IN /\ res = SubSeq(sorted, o.skip + 1, Min(o.skip + o.limit, Len(sorted)))
       /\ Len(res) <= o.limit

\* the criteria that carry only a where
WhereOnly(w) == [NoOptions EXCEPT !.where = w]

\* C19: destroy with a where removes exactly the records that match it:
\* the survivors are the other records in their previous order, the removed
\* records are returned, and a select with the same where then finds nothing
C19_DestroyRemovesExactlyMatches ==
  \A c \in Colls : \A o \in {WhereOnly(w) : w \in TypedWheres} :
    LET recs == DataRecs(c)
        r == destroy(Store, c, o)
    IN /\ Recs(r.st, c) = SelectSeq(recs, LAMBDA rec : ~matchSet(rec, o.where))
       /\ r.results = SelectSeq(recs, LAMBDA rec : matchSet(rec, o.where))
       /\ waterlineCriteria(Recs(r.st, c), o).results = <<>>

\* a destroy with a where was the last operation issued: it removed one of
\* two records and left the other
C19_Witness ==
  /\ nobj = 2
  /\ Len(DataRecs("user")) = 1
  /\ timers # <<>>
  /\ timers[Len(timers)].op = "destroy"
  /\ timers[Len(timers)].id = nops
  /\ Len(timers[Len(timers)].computed) = 1

\* the scalars a where may carry: numbers, strings (numeric-looking ones
\* too) and booleans
Scalars == Nums \cup Strs \cup {Str(s) : s \in NumericStrings} \cup {Bool(TRUE), Bool(FALSE)}

\* C20: a where entry K: v with a scalar v matches a record exactly when
\* the record has a value for K and that value equals v, without coercion
C20_ScalarExactEquality ==
  \A c \in Colls : \A i \in Positions(c) : \A key \in Attrs : \A v \in Scalars :
    LET model == DataRecs(c)[i] IN
    matchSet(model, [k \in {key} |-> v])
      <=> (Get(model, key) # Undef /\ Get(model, key) = v)

\* the operand values of the operator criteria, 0 among them
Operands == {0, 1, 2}
ComparisonKeys == {"greaterThan", ">", "greaterThanOrEqual", ">=", "lessThan", "<",
                   "lessThanOrEqual", "<=", "not", "!"}
\* the comparison a key stands for, on two integers
Comparator(key, a, b) ==
  CASE key \in {"greaterThan", ">"} -> a > b
    [] key \in {"greaterThanOrEqual", ">="} -> a >= b
    [] key \in {"lessThan", "<"} -> a < b
    [] key \in {"lessThanOrEqual", "<="} -> a <= b
    [] OTHER -> a # b
\* the operator criteria with one operator, or with two different ones
OperatorCriteria ==
  {Obj(<<<<k, Num(n)>>>>) : k \in ComparisonKeys, n \in Operands}
  \cup {Obj(<<<<k, Num(n)>>, <<l, Num(m)>>>>) :
          k \in {">", "not"}, l \in {"<=", "lessThan"}, n \in Operands, m \in Operands}

\* C21: an operator criterion on attribute K matches a record exactly when
\* the record has a value for K and every comparator of the criterion holds
\* between that value and its operand, operand 0 included
C21_OperatorCriteria ==
  \A c \in Colls : \A i \in Positions(c) : \A crit \in OperatorCriteria :
    LET model == DataRecs(c)[i] IN
    matchSet(model, [k \in {"id"} |-> crit])
      <=> /\ Get(model, "id") # Undef
          /\ \A e \in 1..Len(crit[2]) :
               Comparator(crit[2][e][1], Get(model, "id")[2], crit[2][e][2][2])

\* criterion objects with a key outside the operator set: alone, after a
\* recognized operator, and before one
MalformedCriteria ==
  {Obj(<<<<"foo", Num(n)>>>>) : n \in Operands}
  \cup {Obj(<<<<">", Num(n)>>, <<"foo", Num(1)>>>>) : n \in Operands}
  \cup {Obj(<<<<"foo", Num(1)>>, <<">", Num(n)>>>>) : n \in Operands}

\* C22: a criterion object with a key outside the operator set fails the
\* evaluation, against every record and in every key order
C22_MalformedCriteriaRejected ==
  \A c \in Colls : \A i \in Positions(c) : \A crit \in MalformedCriteria :
    matchSetThrows(DataRecs(c)[i], [k \in {"id"} |-> crit])

\* the whole string fits the pattern: %%% is one literal % sign, a single
\* % any run of characters, every other character itself in either case
RECURSIVE LikeFits(_, _)
LikeFits(pat, str) ==
  IF pat = <<>> THEN str = <<>>
  ELSE IF Len(pat) >= 3 /\ SubSeq(pat, 1, 3) = <<"%", "%", "%">>
       THEN str # <<>> /\ Head(str) = "%" /\ LikeFits(SubSeq(pat, 4, Len(pat)), Tail(str))
  ELSE IF Head(pat) = "%"
       THEN \E k \in 0..Len(str) : LikeFits(Tail(pat), SubSeq(str, k + 1, Len(str)))
  ELSE /\ str # <<>>
       /\ LowerChar(Head(str)) = LowerChar(Head(pat))
       /\ LikeFits(Tail(pat), Tail(str))

\* C23: a like criterion with a string pattern matches a record exactly
\* when the whole value of the attribute fits the pattern
C23_LikePattern ==
  \A c \in Colls : \A i \in Positions(c) : \A o \in LikeOptions :
    LET model == DataRecs(c)[i] IN
    matchSet(model, o.where)
      <=> LikeFits(Chars(o.where["like"]["name"][2]), Chars(Get(model, "name")[2]))

\* the aggregating selects over an attribute, grouped by name or not
AveragesOf(key) == {o \in AggOptions : HasOption(o, "average") /\ o.average = <<key>>}

\* C24: the average of a group is the sum of its numeric values divided by
\* their count, and null when the group has no numeric value
C24_AverageOverNumericValues ==
  \A c \in Colls : \A o \in AveragesOf("id") :
    LET resultSet == DataRecs(c)
        groups == Groups(o, resultSet)
        out == Aggregate(o, resultSet).results
    IN /\ Len(out) = Len(groups)
       /\ \A g \in 1..Len(groups) :
            LET nums == {k \in 1..Len(groups[g]) : IsNum(Get(groups[g][k], "id"))} IN
            out[g]["id"] = IF nums = {} THEN Null
                           ELSE Divide(SumOf([k \in 1..Len(groups[g]) |->
                                                IF k \in nums THEN groups[g][k]["id"] ELSE Num(0)]),
                                       Cardinality(nums))

\* the extreme (dir 1: the smallest, dir -1: the largest) of the numbers
\* the members of a group hold for an attribute is v; null stands for none
IsExtreme(group, key, dir, v) ==
  LET held == {Get(group[k], key) : k \in 1..Len(group)}
      nums == {x \in held : IsNum(x)}
  IN IF nums = {} THEN v = Null
     ELSE /\ v \in nums
          /\ \A x \in nums : IF dir = 1 THEN v[2] <= x[2] ELSE v[2] >= x[2]

\* C25: min (max) of a group is the smallest (largest) numeric value of the
\* attribute in the group, and null when the group holds no numeric value
C25_MinMaxOverNumericValues ==
  \A c \in Colls : \A o \in AggOptions :
    (HasOption(o, "min") \/ HasOption(o, "max")) =>
      LET groups == Groups(o, DataRecs(c))
          out == Aggregate(o, DataRecs(c)).results
      IN /\ Len(out) = Len(groups)
         /\ \A g \in 1..Len(groups) :
              IsExtreme(groups[g], "id", IF HasOption(o, "min") THEN 1 ELSE -1, out[g]["id"])

\* a select with min or max over two groups is waiting: one group holds no
\* number and yields null, the other yields a number
C25_Witness ==
  \E k \in 1..Len(timers) :
    /\ timers[k].op = "select"
    /\ Len(timers[k].computed) = 2
    /\ Get(timers[k].computed[1], "id") = Null
    /\ IsNum(Get(timers[k].computed[2], "id"))

\* C26: a select with groupBy and none of sum, average, min, max fails with
\* the error of the aggregation and yields no result set
C26_GroupByNeedsReducer ==
  /\ \A c \in Colls : \A o \in AggOptions :
       (HasOption(o, "groupBy") /\ \A r \in Reducers : ~HasOption(o, r))
         => LET aggregate == Aggregate(o, waterlineCriteria(DataRecs(c), o).results) IN
            aggregate.error = AggregateError /\ aggregate.results = <<>>
  /\ \A k \in 1..Len(timers) :
       (timers[k].op = "select" /\ timers[k].err # NoError) => timers[k].computed = <<>>

\* a select with groupBy alone, on a collection that holds records, is
\* waiting with its error
C26_Witness ==
  /\ Len(DataRecs("user")) >= 1
  /\ \E k \in 1..Len(timers) : timers[k].op = "select" /\ timers[k].err = AggregateError

\* a name without its letter case
NormalizedName(n) == IF n = "User" THEN "user" ELSE n

\* C27: names that differ only in letter case denote the same collection:
\* what is defined, described, stored and counted under one spelling is so
\* under the other, and an insert fares the same under both
C27_NamesCaseInsensitive ==
  \A n1, n2 \in Names :
    NormalizedName(n1) = NormalizedName(n2) =>
      /\ n1 \in hasData <=> n2 \in hasData
      /\ schema[n1] = schema[n2]
      /\ Recs(Store, n1) = Recs(Store, n2)
      /\ counters[n1] = counters[n2]
      /\ nobj < MaxObj =>
           insert(Store, n1, <<EmptyRec>>).err = insert(Store, n2, <<EmptyRec>>).err


\* C28: a define issued for a collection that exists leaves its records (the
\* objects, their order and their contents) and all counters as they were
C28_ReRegistrationKeepsRecords ==
  [][\A c \in Colls :
       (c \in hasData /\ nops' = nops + 1 /\ IssuedOp = "define"
          /\ timers'[Len(timers')].coll = c)
         => /\ c \in hasData'
            /\ data'[c] = data[c]
            /\ heap' = heap
            /\ counters' = counters]_vars

\* a define was the last operation issued, on a collection that holds a
\* record and has a counter set
C28_Witness ==
  /\ timers # <<>>
  /\ timers[Len(timers)].op = "define"
  /\ timers[Len(timers)].id = nops
  /\ Len(DataRecs("user")) >= 1
  /\ \E a \in Attrs : counters["user"][a] > 0


\* C29: after a teardown of one connection or of all, registering an
\* identity that was registered and is torn down succeeds, and the store it
\* opens holds no record, no counter and no schema but the definitions handed
\* over; registering an identity that is registered is refused with
\* IdentityDuplicate and changes nothing
C29_TeardownClearsState ==
  \A identity \in Identities : \A d \in Definitions \cup {NoSchema} :
    /\ \A conn \in {identity, AllConnections} :
         identity \in connections =>
           LET r == registerConnection(teardown(connections, conn), Store, identity, d) IN
           /\ r.err = NoError
           /\ identity \in r.connections
           /\ identity = Connection =>
                \A c \in Names :
                  /\ Recs(r.st, c) = <<>>
                  /\ r.st.data[c] = <<>>
                  /\ \A a \in Attrs : r.st.counters[c][a] = 0
                  /\ r.st.schema[c] = IF c = "user" THEN d ELSE NoSchema
    /\ identity \in connections =>
         LET r == registerConnection(connections, Store, identity, d) IN
         /\ r.err = IdentityDuplicate
         /\ r.connections = connections
         /\ r.st = Store

\* records were stored, the connection was torn down and registered again:
\* the registration succeeded and the collection is empty
C29_Witness ==
  /\ nops = 3
  /\ nobj >= 1
  /\ Connection \in connections
  /\ timers # <<>>
  /\ timers[Len(timers)].op = "registerConnection"
  /\ timers[Len(timers)].id = nops
  /\ timers[Len(timers)].err = NoError
  /\ DataRecs("user") = <<>>
  /\ \A a \in Attrs : counters["user"][a] = 0


\* C30: a successful update merges the supplied values into every record
\* that matches the where of its criteria (supplied keys overwritten, the
\* other keys kept) and changes nothing else: the other records, the number
\* and order of the records and the counters stay as they were
C30_UpdateMergesIntoMatches ==
  \A c \in Colls : \A o \in AllOptions : \A v \in Partials :
    LET r == update(Store, c, o, v) IN
    r.err = NoError =>
      /\ r.st.data = data
      /\ r.st.hasData = hasData
      /\ r.st.schema = schema
      /\ r.st.counters = counters
      /\ r.st.nobj = nobj
      /\ \A i \in Positions(c) :
           r.st.heap[data[c][i]] = IF matchSet(DataRecs(c)[i], o.where)
                                   THEN Extend(DataRecs(c)[i], v)
                                   ELSE DataRecs(c)[i]
      /\ \A ob \in Oids :
           (\A i \in Positions(c) : data[c][i] # ob) => r.st.heap[ob] = heap[ob]


\* a definition whose primary key is the name
SchemaNamed == [a \in Attrs |->
  IF a = "id" THEN AttrDef(FALSE, TRUE, TRUE, "integer")
              ELSE AttrDef(TRUE, TRUE, FALSE, "string")]
\* the definitions that mark a primary key
KeyedDefinitions == {SchemaUser, SchemaNamed}

\* C31: under any definition with a primary key, an update whose where
\* matches exactly one record and whose values carry only a unique attribute
\* other than the primary key, set to the value that record holds, succeeds
\* when no other record holds that value, and reports the collision when
\* another record does
C31_OwnValueIsNoViolation ==
  \A c \in Colls : \A d \in KeyedDefinitions : \A w \in TypedWheres : \A a \in Attrs :
    LET st == setCollection(Store, c, d)
        recs == Recs(st, c)
        hit == waterlineCriteria(recs, WhereOnly(w)).indices
    IN (Len(hit) = 1 /\ a # getPrimaryKey(d) /\ d[a].unique /\ Get(recs[hit[1]], a) # Undef)
         => LET v == [k \in {a} |-> recs[hit[1]][a]]
                taken == \E j \in 1..Len(recs) : j # hit[1] /\ Get(recs[j], a) = v[a]
            IN update(st, c, WhereOnly(w), v).err.code = IF taken THEN "E_UNIQUE" ELSE "none"


\* the larger of two integers
Max(a, b) == IF a > b THEN a ELSE b

\* C32: a successful insert that supplies an integer v for an auto-increment
\* attribute stores v as it is (0 included) and leaves the counter at
\* max(counter, v); and the value a successful insert assigns to an
\* auto-increment attribute is held by no record already in the collection
C32_AutoAssignNeverCollides ==
  \A c \in Colls : \A a \in AutoAttrs(schema[c]) :
    (nobj < MaxObj /\ c \in hasData) =>
      /\ \A rec \in CounterRecords :
           LET r == insert(Store, c, <<rec>>) IN
           (a \in DOMAIN rec /\ r.err = NoError)
             => /\ Get(r.st.heap[r.pushed[1]], a) = rec[a]
                /\ r.st.counters[c][a] = Max(counters[c][a], rec[a][2])
      /\ LET r == insert(Store, c, <<EmptyRec>>) IN
         r.err = NoError
           => \A i \in Positions(c) :
                Get(DataRecs(c)[i], a) # Get(r.st.heap[r.pushed[1]], a)


\* the lists of attributes a select may group by
GroupBys == {<<"id">>, <<"name">>, <<"id", "name">>}

\* C33: the groups of a select with groupBy partition the result records by
\* their groupBy values: two records are in the same group exactly when they
\* agree on every groupBy attribute, and every member of a group agrees with
\* the representative values of the group's output record
C33_GroupingPartitions ==
  \A c \in Colls : \A groupBy \in GroupBys :
    LET o == Extend(Extend(NoOptions, [k \in {"groupBy"} |-> groupBy]),
                    [k \in {"sum"} |-> <<"id">>])
        rs == waterlineCriteria(DataRecs(c), o).results
        groups == Groups(o, rs)
        member(g, x) == \E m \in 1..Len(groups[g]) : groups[g][m] = rs[x]
    IN /\ \A x, y \in 1..Len(rs) :
            (\E g \in 1..Len(groups) : member(g, x) /\ member(g, y))
              <=> \A j \in 1..Len(groupBy) : Get(rs[x], groupBy[j]) = Get(rs[y], groupBy[j])
       /\ \A g \in 1..Len(groups) : \A m \in 1..Len(groups[g]) : \A j \in 1..Len(groupBy) :
            Get(groups[g][m], groupBy[j]) = Get(Stub(o, groups[g]), groupBy[j])


\* C34: registering a registered collection again with an empty or absent
\* definition leaves its attribute definitions as they were: describe
\* answers the same, and a later insert is checked and completed as before
C34_RegisterIdempotent ==
  \A c \in Colls :
    c \in hasData =>
      LET st == setCollection(Store, c, NoSchema) IN
      /\ st.schema[c] = schema[c]
      /\ nobj < MaxObj =>
           \A rec \in Records :
             /\ insert(st, c, <<rec>>).err = insert(Store, c, <<rec>>).err
             /\ Recs(insert(st, c, <<rec>>).st, c) = Recs(insert(Store, c, <<rec>>).st, c)


\* C35: every operation issued completes exactly once: its callback runs,
\* sooner or later, and never runs twice
C35_EveryOperationCompletesOnce ==
  /\ [](\A n \in 1..MaxOps : called[n] <= 1)
  /\ \A n \in 1..MaxOps : (nops >= n) ~> (called[n] = 1)


\* the operation issued by a step failed: its callback ran with an error
\* before the call returned, its completion waits with an error, or the call
\* threw
Failed ==
  /\ nops' = nops + 1
  /\ \/ last'.id = nops' /\ last'.err # "none"
     \/ Len(timers') > Len(timers) /\ timers'[Len(timers')].err # NoError
     \/ timers' = timers /\ last' = last

\* C36: a select, an insert of one record, an update or a destroy that fails
\* leaves the store as it found it: the records of every collection with all
\* their keys, the schema and the counters
C36_FailureLeavesStore ==
  [][Failed =>
       /\ \A c \in Names : Recs(Store, c)' = Recs(Store, c)
       /\ data' = data
       /\ hasData' = hasData
       /\ schema' = schema
       /\ counters' = counters]_vars


\* C37: a collection that is not defined stays so, and an insert into it
\* fails with CollectionNotRegistered, over every step that is not a define
\* of it: selects, updates and destroys on the name do not create it
C37_OnlyDefineCreates ==
  [][\A c \in Colls :
       (c \notin hasData /\ ~(nops' = nops + 1 /\ IssuedOp = "define"))
         => /\ c \notin hasData'
            /\ nobj' < MaxObj
                 => insert(Store, c, <<EmptyRec>>).err' = CollectionNotRegistered]_vars

====
